---- MODULE Spec2Model ----
(***************************************************************************)
(* A model of Preprocessing/toxic_comment_preprocessing.ipynb: the text    *)
(* cleaner, the label coercion, the train/validation split, the dataset    *)
(* (ToxicCommentsDataset), the DataLoader traversal, train_epoch and       *)
(* eval_model.  Each notebook stage has its own specification; all share   *)
(* the variables below, and a stage that is not running keeps its          *)
(* variables at their idle values.                                         *)
(*                                                                         *)
(* Strings are sequences of one-character strings.  Row positions are the  *)
(* 0-based positions of the code; TLA+ sequences are 1-based, so row k of  *)
(* the code is element k+1 of a sequence.                                  *)
(***************************************************************************)
EXTENDS Integers, Sequences, FiniteSets, TLC

VARIABLES
    pc,          \* the position of the running stage
    text,        \* clean_text: the argument
    cleaned,     \* clean_text: the returned string
    raw_row,     \* labels: the six label fields of a CSV row, as read
    df_row,      \* labels: the same row of df, column by column coerced
    col_i,       \* labels: the number of label columns already coerced
    targets,     \* labels: the 'targets' vector __getitem__ builds
    df,          \* split: the rows of df (their original row numbers)
    train_df,    \* split: the rows of train_df, in order
    val_df,      \* split: the rows of val_df, in order
    ds,          \* dataset: the dataset __getitem__ is called on
    index,       \* dataset: the argument of __getitem__
    item,        \* dataset: what __getitem__ returned or raised
    n_rows,      \* loader: the number of rows of the dataset
    batch_size,  \* loader: batch_size
    shuffle,     \* loader: shuffle
    order,       \* loader: the sampler's indices not yet batched
    yielded,     \* loader: the batches of this traversal, in order
    traversals,  \* loader: the traversals started so far
    n_train,     \* run: the number of rows of train_dataset
    val_targets, \* run: the label rows of val_dataset, by row
    total_steps, \* run: num_training_steps of the scheduler
    mode,        \* run: the model's mode, "train" or "eval"
    params,      \* run: the number of updates the parameters have received
    grads,       \* run: the state of the parameters' .grad
    opt_steps,   \* run: the calls of optimizer.step()
    sched_steps, \* run: the calls of scheduler.step()
    history,     \* run: the calls made so far, in order
    sched_arg,   \* run: whether this train_epoch call was passed a scheduler
    entry,       \* run: the model and optimizer as the current call found them
    it,          \* run: the indices the loop's loader has not yet batched
    events,      \* run: what the last batch's iteration did, in order
    stepped_on,  \* run: the gradient the last optimizer.step() used
    fwd_modes,   \* run: the mode at each forward pass of the current call
    total_loss,  \* run: total_loss
    losses,      \* run: loss.item() of each batch of the current call
    all_targets, \* run: all_targets
    all_outputs, \* run: all_outputs
    avg_loss,    \* run: avg_loss of eval_model, <<numerator, denominator>>
    label_i,     \* run: the labels eval_model has scored
    roc_auc,     \* run: roc_auc, label by label
    epoch,       \* run: the epochs the training cell has run
    ret          \* run: what the last call returned to the notebook

cleanVars == <<text, cleaned>>
labelVars == <<raw_row, df_row, col_i, targets>>
splitVars == <<df, train_df, val_df>>
itemVars == <<ds, index, item>>
loaderVars == <<n_rows, batch_size, shuffle, order, yielded, traversals>>
dataRunVars == <<n_train, val_targets, total_steps>>
machineVars == <<mode, params, grads, opt_steps, sched_steps>>
callVars == <<history, sched_arg, entry, it, events, stepped_on, fwd_modes,
              total_loss, losses>>
evalVars == <<all_targets, all_outputs, avg_loss, label_i, roc_auc>>
runVars == <<dataRunVars, machineVars, callVars, evalVars, epoch, ret>>
stageVars == <<cleanVars, labelVars, splitVars, itemVars>>
vars == <<pc, stageVars, loaderVars, runVars>>

(***************************************************************************)
(* Bounds of the model.                                                    *)
(***************************************************************************)
MaxTextLen == 5
MaxRows == 4
MaxBatchSize == 3
MaxTraversals == 2
MaxTrain == 3
MaxVal == 3
MaxCalls == 2
MaxCallRows == 2

(***************************************************************************)
(* Generic helpers.                                                        *)
(***************************************************************************)
Range(s) == {s[i] : i \in 1..Len(s)}

Min(a, b) == IF a <= b THEN a ELSE b

SeqsUpTo(S, n) == UNION {[1..k -> S] : k \in 0..n}

(***************************************************************************)
(* 4. Clean Text Data: clean_text                                          *)
(***************************************************************************)
UpperCase == <<"A","B","C","D","E","F","G","H","I","J","K","L","M",
               "N","O","P","Q","R","S","T","U","V","W","X","Y","Z">>

LowerCase == <<"a","b","c","d","e","f","g","h","i","j","k","l","m",
               "n","o","p","q","r","s","t","u","v","w","x","y","z">>

Digits == {"0","1","2","3","4","5","6","7","8","9"}

\* The characters the class \S of a regular expression does not match.
Whitespace == {" ", "\n", "\t", "\r"}

\* [A-Za-z0-9 ]: the characters the third substitution keeps.
KeptChars == Range(UpperCase) \cup Range(LowerCase) \cup Digits \cup {" "}

\* r'http\S+' matches at position i: the four letters, then at least one
\* character that is not whitespace.  The match is case-sensitive.
MatchesHttpAt(s, i) ==
    /\ i + 4 <= Len(s)
    /\ s[i] = "h" /\ s[i+1] = "t" /\ s[i+2] = "t" /\ s[i+3] = "p"
    /\ s[i+4] \notin Whitespace

\* \S+ is greedy: the match runs to the next whitespace or the end.
RECURSIVE EndOfNonSpace(_, _)
EndOfNonSpace(s, j) ==
    IF j > Len(s) \/ s[j] \in Whitespace THEN j ELSE EndOfNonSpace(s, j + 1)

\* re.sub(r'http\S+', '', text): leftmost matches, left to right, removed.
RECURSIVE RemoveUrlsFrom(_, _)
RemoveUrlsFrom(s, i) ==
    IF i > Len(s) THEN <<>>
    ELSE IF MatchesHttpAt(s, i) THEN RemoveUrlsFrom(s, EndOfNonSpace(s, i + 4))
    ELSE <<s[i]>> \o RemoveUrlsFrom(s, i + 1)

RemoveUrls(s) == RemoveUrlsFrom(s, 1)

\* re.sub(r'\n', ' ', text)
ReplaceNewlines(s) == [i \in 1..Len(s) |-> IF s[i] = "\n" THEN " " ELSE s[i]]

IsKept(c) == c \in KeptChars

\* re.sub(r'[^A-Za-z0-9 ]+', '', text)
RemoveSpecialChars(s) == SelectSeq(s, IsKept)

LowerChar(c) ==
    IF \E k \in 1..26 : UpperCase[k] = c
    THEN LowerCase[CHOOSE k \in 1..26 : UpperCase[k] = c]
    ELSE c

\* text.lower()
Lower(s) == [i \in 1..Len(s) |-> LowerChar(s[i])]

clean_text(s) == Lower(RemoveSpecialChars(ReplaceNewlines(RemoveUrls(s))))

\* The characters the bounded inputs are made of: letters of both cases,
\* a digit, space, newline, punctuation.
Alphabet == {"h", "t", "p", "H", "1", ":", " ", "\n"}

\* "Visit http://x.com NOW!!", the example of the specification.
SpecExample ==
    <<"V","i","s","i","t"," ","h","t","t","p",":","/","/","x",".","c","o","m",
      " ","N","O","W","!","!">>

SpecExampleCleaned == <<"v","i","s","i","t"," "," ","n","o","w">>

\* "See HTTP://x.com": a URL whose scheme is written in upper case.
UpperCaseUrl ==
    <<"S","e","e"," ","H","T","T","P",":","/","/","x",".","c","o","m">>

TextInputs == SeqsUpTo(Alphabet, MaxTextLen) \cup {SpecExample, UpperCaseUrl}

IdleClean == text = <<>> /\ cleaned = <<>>

IdleLabels == raw_row = <<>> /\ df_row = <<>> /\ col_i = 0 /\ targets = <<>>

IdleSplit == df = <<>> /\ train_df = <<>> /\ val_df = <<>>

IdleItem == ds = "none" /\ index = 0 /\ item = [kind |-> "none", row |-> -1]

IdleLoader ==
    /\ n_rows = 0 /\ batch_size = 1 /\ shuffle = FALSE
    /\ order = <<>> /\ yielded = <<>> /\ traversals = 0

NoGrad == [has |-> FALSE, fresh |-> FALSE, clipped |-> FALSE]

NoSnapshot == [params |-> 0, grads |-> NoGrad, opt_steps |-> 0, sched_steps |-> 0]

NoReturn == [call |-> "none", loss |-> <<0, 1>>, roc_auc |-> <<>>]

\* No call is running: the variables of a call hold nothing.
IdleCall ==
    /\ sched_arg = FALSE /\ entry = NoSnapshot /\ it = <<>>
    /\ events = <<>> /\ stepped_on = NoGrad /\ fwd_modes = <<>>
    /\ total_loss = 0 /\ losses = <<>>
    /\ all_targets = <<>> /\ all_outputs = <<>> /\ avg_loss = <<0, 1>>
    /\ label_i = 0 /\ roc_auc = <<>>

IdleRun ==
    /\ n_train = 0 /\ val_targets = <<>> /\ total_steps = 0
    /\ mode = "train" /\ params = 0 /\ grads = NoGrad
    /\ opt_steps = 0 /\ sched_steps = 0
    /\ history = <<>> /\ epoch = 0 /\ ret = NoReturn
    /\ IdleCall

InitClean ==
    /\ pc = "clean"
    /\ text \in TextInputs
    /\ cleaned = <<>>
    /\ IdleLabels /\ IdleSplit /\ IdleItem /\ IdleLoader /\ IdleRun

\* df['comment_text'].astype(str).apply(clean_text), one comment
CleanText ==
    /\ pc = "clean"
    /\ cleaned' = clean_text(text)
    /\ pc' = "cleaned"
    /\ UNCHANGED <<text, labelVars, splitVars, itemVars, loaderVars, runVars>>

NextClean == CleanText

SpecClean == InitClean /\ [][NextClean]_vars

\* A URL-like substring: a scheme-like prefix followed by characters that
\* are not spaces, whatever the case of the prefix.
UrlLikeAt(s, i) ==
    /\ i + 4 <= Len(s)
    /\ Lower(SubSeq(s, i, i + 3)) = <<"h","t","t","p">>
    /\ s[i+4] \notin Whitespace

HasUrlLike(s) == \E i \in 1..Len(s) : UrlLikeAt(s, i)

\* C8: for every input, the result of clean_text holds only characters in
\* a-z, 0-9 and space and holds no URL-like substring, and
\* clean("Visit http://x.com NOW!!") is "visit  now".
C8_CleanRemovesUrls ==
    pc = "cleaned" =>
        /\ Range(cleaned) \subseteq Range(LowerCase) \cup Digits \cup {" "}
        /\ ~HasUrlLike(cleaned)
        /\ text = SpecExample => cleaned = SpecExampleCleaned

(***************************************************************************)
(* 5. Define Labels and Convert to Numeric, and the targets of __getitem__ *)
(***************************************************************************)
labels == <<"toxic", "severe_toxic", "obscene", "threat", "insult", "identity_hate">>

\* A cell of a label column.  kind "nan" is a missing value, "str" text
\* that is no number, "num" a number (or text that parses as one) and
\* "int" an integer cell; tenths is ten times the number.
Cell(kind, tenths) == [kind |-> kind, tenths |-> tenths]

\* What a label field of train.csv may hold: nothing, text, 0, 1, 1.5, 2.
RawValues ==
    {Cell("nan", 0), Cell("str", 0),
     Cell("num", 0), Cell("num", 10), Cell("num", 15), Cell("num", 20)}

\* pd.to_numeric(..., errors='coerce'): what does not parse becomes NaN.
ToNumeric(v) == IF v.kind = "num" THEN v ELSE Cell("nan", 0)

\* A variant of FillNa that fills a missing value with 1.
FillNa_One(v) == IF v.kind = "nan" THEN Cell("num", 10) ELSE v

\* .fillna(0)
FillNa(v) == IF v.kind = "nan" THEN Cell("num", 0) ELSE v

\* .astype(int): a float is truncated toward zero.
AsTypeInt(v) ==
    Cell("int", IF v.tenths >= 0 THEN 10 * (v.tenths \div 10)
                ELSE -10 * ((-v.tenths) \div 10))

CoerceLabel(v) == AsTypeInt(FillNa(ToNumeric(v)))

\* torch.tensor(self.df.iloc[index][self.labels].values, dtype=torch.float):
\* the row's label cells in the order of self.labels, as floats (in tenths).
RowTargets(row) == [i \in 1..Len(labels) |-> row[labels[i]].tenths]

InitLabels ==
    /\ pc = "coerce"
    /\ raw_row \in [Range(labels) -> RawValues]
    /\ df_row = raw_row
    /\ col_i = 0
    /\ targets = <<>>
    /\ IdleClean /\ IdleSplit /\ IdleItem /\ IdleLoader /\ IdleRun

\* One iteration of 'for col in labels'.
CoerceColumn ==
    /\ pc = "coerce"
    /\ col_i < Len(labels)
    /\ LET col == labels[col_i + 1]
       IN  df_row' = [df_row EXCEPT ![col] = CoerceLabel(df_row[col])]
    /\ col_i' = col_i + 1
    /\ UNCHANGED <<pc, raw_row, targets, cleanVars, splitVars, itemVars, loaderVars, runVars>>

\* The loop is over; the row is read through __getitem__.
GetTargets ==
    /\ pc = "coerce"
    /\ col_i = Len(labels)
    /\ targets' = RowTargets(df_row)
    /\ pc' = "item"
    /\ UNCHANGED <<raw_row, df_row, col_i, cleanVars, splitVars, itemVars, loaderVars, runVars>>

NextLabels == CoerceColumn \/ GetTargets

SpecLabels == InitLabels /\ [][NextLabels]_vars

IntegerPart(v) == IF v.kind = "num" THEN v.tenths \div 10 ELSE 0

TEST_SIZE_TENTHS == 1

\* The permutations of 1..n, for every n the model uses.
PermTable ==
    [n \in 0..MaxRows |->
        {p \in [1..n -> 1..n] : \A i, j \in 1..n : p[i] = p[j] => i = j}]

Perms(n) == PermTable[n]

\* A variant of NTest that rounds down.
NTest_Floor(n) == (TEST_SIZE_TENTHS * n) \div 10

\* train_test_split, a float test_size: n_test = ceil(test_size * n_samples)
NTest(n) == (TEST_SIZE_TENTHS * n + 9) \div 10

\* train_size=None: n_train = n_samples - n_test
NTrain(n) == n - NTest(n)

\* The rows of frame at the positions perm[from], ..., perm[from + count - 1].
TakeRows(frame, perm, from, count) ==
    [i \in 1..count |-> frame[perm[from + i - 1]]]

InitData ==
    /\ pc = "split"
    /\ \E n \in 0..MaxRows : df = [i \in 1..n |-> i - 1]
    /\ train_df = <<>>
    /\ val_df = <<>>
    /\ IdleItem /\ IdleClean /\ IdleLabels /\ IdleLoader /\ IdleRun

\* train_test_split(df, test_size=0.1, random_state=RANDOM_SEED), n_train > 0:
\* the seeded permutation's first n_test rows are the test part and the next
\* n_train rows the train part.
Split ==
    /\ pc = "split"
    /\ NTrain(Len(df)) > 0
    /\ \E perm \in Perms(Len(df)) :
          /\ val_df' = TakeRows(df, perm, 1, NTest(Len(df)))
          /\ train_df' = TakeRows(df, perm, NTest(Len(df)) + 1, NTrain(Len(df)))
    /\ pc' = "split_done"
    /\ UNCHANGED <<df, itemVars, cleanVars, labelVars, loaderVars, runVars>>

\* train_test_split raises ValueError: "the resulting train set will be empty".
SplitFails ==
    /\ pc = "split"
    /\ NTrain(Len(df)) = 0
    /\ pc' = "split_error"
    /\ UNCHANGED <<splitVars, itemVars, cleanVars, labelVars, loaderVars, runVars>>

IndexError == [kind |-> "IndexError", row |-> -1]

\* A variant of Iloc that takes no negative position.
Iloc_NoNegative(frame, i) ==
    IF 0 <= i /\ i < Len(frame)
    THEN [kind |-> "example", row |-> frame[i + 1]]
    ELSE IndexError

\* self.df.iloc[index]: a position from the front, or, when negative, from
\* the end; IndexError outside -len..len-1.
Iloc(frame, i) ==
    IF 0 <= i /\ i < Len(frame)
    THEN [kind |-> "example", row |-> frame[i + 1]]
    ELSE IF -Len(frame) <= i /\ i < 0
    THEN [kind |-> "example", row |-> frame[Len(frame) + i + 1]]
    ELSE IndexError

\* train_dataset and val_dataset hold train_df and val_df, renumbered.
Frame(d) == IF d = "train" THEN train_df ELSE val_df

\* ToxicCommentsDataset.__len__
DatasetLen(d) == Len(Frame(d))

\* ToxicCommentsDataset.__getitem__: the row is read with iloc, and an
\* IndexError of iloc leaves __getitem__ uncaught; the encoded example is
\* identified by the row it was built from.
GetItem ==
    /\ pc = "split_done"
    /\ \E d \in {"train", "val"}, i \in -(MaxRows + 1)..(MaxRows + 1) :
          /\ ds' = d
          /\ index' = i
          /\ item' = Iloc(Frame(d), i)
    /\ pc' = "item_done"
    /\ UNCHANGED <<splitVars, cleanVars, labelVars, loaderVars, runVars>>

NextData == Split \/ SplitFails \/ GetItem

SpecData == InitData /\ [][NextData]_vars

\* train and validation share no row, together they are the rows of df, and
\* validation holds the fraction test_size of them, rounded up.
IsPartition ==
    /\ Range(train_df) \cap Range(val_df) = {}
    /\ Range(train_df) \cup Range(val_df) = Range(df)
    /\ Len(train_df) + Len(val_df) = Len(df)
    /\ TEST_SIZE_TENTHS * Len(df) <= 10 * Len(val_df)
    /\ 10 * Len(val_df) < TEST_SIZE_TENTHS * Len(df) + 10

\* C4 as stated: for any example set, sizes 0 and 1 included, the split does
\* not fail and returns a partition with the fraction f in validation.
C4_SplitNeverFails ==
    /\ pc # "split_error"
    /\ pc = "split_done" => IsPartition

\* C4, amended: for any example set of at least 2 rows the split (of the
\* fraction 0.1) does not fail and returns disjoint parts whose union is the
\* set, validation holding ceil(0.1 * n) rows; for a set of 0 or 1 rows the
\* call fails with ValueError and returns nothing.
C4_SplitPartitionsFromTwoRows ==
    /\ pc = "split_error" => Len(df) <= 1 /\ train_df = <<>> /\ val_df = <<>>
    /\ pc = "split_done" => Len(df) >= 2 /\ IsPartition

\* A set of at least three rows has been split, not in the order of df.
C4_Witness ==
    /\ pc = "split_done"
    /\ Len(df) >= 3
    /\ val_df # <<df[1]>>
    /\ train_df[1] > train_df[2]

C5_WitnessError ==
    /\ pc = "item_done"
    /\ index < -DatasetLen(ds)
    /\ item = IndexError

(***************************************************************************)
(* 9. Initialize DataLoaders: DataLoader(dataset, batch_size, shuffle)     *)
(***************************************************************************)
\* The store order of a dataset of n rows: 0, 1, ..., n-1.
StoreOrder(n) == [i \in 1..n |-> i - 1]

\* The orders the sampler may produce: SequentialSampler the store order,
\* RandomSampler (shuffle=True) any permutation, drawn afresh at each iter().
SamplerOrders(n, shuf) ==
    IF shuf THEN {[i \in 1..n |-> p[i] - 1] : p \in Perms(n)}
    ELSE {StoreOrder(n)}

\* A variant of BatchOf whose batches hold one index too many.
BatchOf_OneMore(ord, B) == SubSeq(ord, 1, Min(B + 1, Len(ord)))

\* BatchSampler, drop_last=False: the next batch_size indices, or the ones
\* that are left when fewer remain.
BatchOf(ord, B) == SubSeq(ord, 1, Min(B, Len(ord)))

RestAfter(ord, batch) == SubSeq(ord, Len(batch) + 1, Len(ord))

\* DataLoader.__len__: ceil(n / batch_size)
LoaderLen(n, B) == (n + B - 1) \div B

InitLoader ==
    /\ pc = "new"
    /\ n_rows \in 0..MaxRows
    /\ batch_size \in 1..MaxBatchSize
    /\ shuffle \in BOOLEAN
    /\ order = <<>>
    /\ yielded = <<>>
    /\ traversals = 0
    /\ IdleClean /\ IdleLabels /\ IdleSplit /\ IdleItem /\ IdleRun

\* DataLoader(...) returns a loader.
Construct ==
    /\ pc = "new"
    /\ pc' = "ready"
    /\ UNCHANGED <<loaderVars, stageVars, runVars>>

\* RandomSampler over an empty dataset: the torch releases that require
\* num_samples > 0 raise ValueError in the constructor.
ConstructFails ==
    /\ pc = "new"
    /\ shuffle /\ n_rows = 0
    /\ pc' = "ctor_error"
    /\ UNCHANGED <<loaderVars, stageVars, runVars>>

\* iter(loader): a traversal starts, or starts again after the last one ended.
Iter ==
    /\ pc \in {"ready", "exhausted"}
    /\ traversals < MaxTraversals
    /\ order' \in SamplerOrders(n_rows, shuffle)
    /\ yielded' = <<>>
    /\ traversals' = traversals + 1
    /\ pc' = "iterating"
    /\ UNCHANGED <<n_rows, batch_size, shuffle, stageVars, runVars>>

\* next(it) yields a batch.
NextBatch ==
    /\ pc = "iterating"
    /\ order # <<>>
    /\ LET batch == BatchOf(order, batch_size)
       IN  /\ yielded' = Append(yielded, batch)
           /\ order' = RestAfter(order, batch)
    /\ UNCHANGED <<pc, n_rows, batch_size, shuffle, traversals, stageVars, runVars>>

\* next(it) raises StopIteration: the traversal is over.
StopIteration ==
    /\ pc = "iterating"
    /\ order = <<>>
    /\ pc' = "exhausted"
    /\ UNCHANGED <<loaderVars, stageVars, runVars>>

NextLoader == Construct \/ ConstructFails \/ Iter \/ NextBatch \/ StopIteration

SpecLoader == InitLoader /\ [][NextLoader]_vars

RECURSIVE Flatten(_)
Flatten(batches) ==
    IF batches = <<>> THEN <<>> ELSE Head(batches) \o Flatten(Tail(batches))

\* C1: after one traversal the batches, concatenated, hold each index of
\* 0..n-1 exactly once; every batch but the last has batch_size indices and
\* the last has n mod batch_size, or batch_size when that is 0; without
\* shuffle the indices come in store order.
C1_TraversalCoversOnce ==
    pc = "exhausted" =>
        LET flat == Flatten(yielded)
            nb == Len(yielded)
        IN  /\ Len(flat) = n_rows
            /\ Range(flat) = 0..(n_rows - 1)
            /\ \A k \in 1..(nb - 1) : Len(yielded[k]) = batch_size
            /\ nb > 0 =>
                  Len(yielded[nb]) = IF n_rows % batch_size # 0
                                     THEN n_rows % batch_size ELSE batch_size
            /\ ~shuffle => flat = StoreOrder(n_rows)

\* A shuffled second traversal ended with full batches and a smaller last one,
\* out of store order.
C1_Witness ==
    /\ pc = "exhausted"
    /\ shuffle
    /\ traversals = 2
    /\ Len(yielded) >= 2
    /\ Len(yielded[Len(yielded)]) < batch_size
    /\ Flatten(yielded) # StoreOrder(n_rows)

(***************************************************************************)
(* 11.-15. The model, train_epoch, the training cell, eval_model           *)
(***************************************************************************)
EPOCHS == 1

\* total_steps = len(train_loader) * 3
STEPS_PER_BATCH == 3

\* The label rows a validation example may have: 'obscene' is always 1 and
\* 'insult' always 0, the other labels differ between the two.
TargetRows == {<<1, 0, 1, 0, 0, 1>>, <<0, 1, 1, 1, 0, 0>>}

\* The rows of probabilities (sigmoid of the logits, in tenths) the model
\* may give an example.
ScoreRows == {<<9, 1, 5, 5, 2, 8>>, <<2, 1, 5, 8, 2, 3>>}

\* The values loss.item() may take.
LossValues == {1, 2}

RECURSIVE SumSeq(_)
SumSeq(q) == IF q = <<>> THEN 0 ELSE Head(q) + SumSeq(Tail(q))

\* The model and the optimizer, as the statements of a loop body pass them on.
Machine ==
    [mode |-> mode, params |-> params, grads |-> grads, opt_steps |-> opt_steps,
     sched_steps |-> sched_steps, events |-> <<>>, stepped_on |-> stepped_on,
     fwd_modes |-> fwd_modes]

Snapshot ==
    [params |-> params, grads |-> grads, opt_steps |-> opt_steps,
     sched_steps |-> sched_steps]

\* model.train()
ModelTrain(m) == [m EXCEPT !.mode = "train"]

\* A variant of ModelEval that leaves the mode as it is.
ModelEval_Missing(m) == m

\* model.eval()
ModelEval(m) == [m EXCEPT !.mode = "eval"]

\* outputs = model(input_ids, attention_mask, token_type_ids): dropout acts
\* in the mode the model is in.
Forward(m) ==
    [m EXCEPT !.events = Append(@, "forward"), !.fwd_modes = Append(@, m.mode)]

\* loss = criterion(outputs, targets)
Criterion(m) == [m EXCEPT !.events = Append(@, "loss")]

\* optimizer.zero_grad()
ZeroGrad(m) == [m EXCEPT !.grads = NoGrad, !.events = Append(@, "zero_grad")]

\* loss.backward(): the gradient is this batch's when .grad was cleared, and
\* is added to what .grad held otherwise.
Backward(m) ==
    [m EXCEPT !.grads = [has |-> TRUE, fresh |-> ~m.grads.has, clipped |-> FALSE],
              !.events = Append(@, "backward")]

\* torch.nn.utils.clip_grad_norm_(model.parameters(), max_norm=1.0)
ClipGradNorm(m) ==
    [m EXCEPT !.grads = [@ EXCEPT !.clipped = m.grads.has],
              !.events = Append(@, "clip")]

\* optimizer.step(): the parameters that have a gradient are updated with it.
OptimizerStep(m) ==
    [m EXCEPT !.params = IF m.grads.has THEN @ + 1 ELSE @,
              !.opt_steps = @ + 1,
              !.stepped_on = m.grads,
              !.events = Append(@, "step")]

\* scheduler.step()
SchedulerStep(m) ==
    [m EXCEPT !.sched_steps = @ + 1, !.events = Append(@, "sched")]

\* A variant of TrainBody that clips after the optimizer step.
TrainBody_StepBeforeClip(m, sched) ==
    LET m6 == ClipGradNorm(OptimizerStep(Backward(ZeroGrad(Criterion(Forward(m))))))
    IN  IF sched THEN SchedulerStep(m6) ELSE m6

\* The body of 'for batch in tqdm(data_loader)' in train_epoch.
TrainBody(m, sched) ==
    LET m6 == OptimizerStep(ClipGradNorm(Backward(ZeroGrad(Criterion(Forward(m))))))
    IN  IF sched THEN SchedulerStep(m6) ELSE m6

\* The body of 'for batch in data_loader' in eval_model, under torch.no_grad().
EvalBody(m) == Criterion(Forward(m))

\* A variant of AvgLoss that divides by len(dataset).
AvgLoss_PerRow(total, n, B) == <<total, n>>

\* total_loss / len(data_loader), as <<numerator, denominator>>
AvgLoss(total, n, B) == <<total, LoaderLen(n, B)>>

ValueError == [kind |-> "ValueError", num |-> 0, den |-> 1]

\* 'Undefined (only one class present)'
Undefined == [kind |-> "undefined", num |-> 0, den |-> 1]

\* The pairs (positive example, negative example) of a label.
PosNegPairs(y) ==
    {pq \in (1..Len(y)) \X (1..Len(y)) : y[pq[1]] = 1 /\ y[pq[2]] = 0}

\* A variant of RocAucScore that raises nothing for one class and returns
\* 0/0 instead.
RocAucScore_NanForOneClass(y, sc) ==
    LET pairs == PosNegPairs(y)
        wins == Cardinality({pq \in pairs : sc[pq[1]] > sc[pq[2]]})
        ties == Cardinality({pq \in pairs : sc[pq[1]] = sc[pq[2]]})
    IN  [kind |-> "number", num |-> 2 * wins + ties, den |-> 2 * Cardinality(pairs)]

\* roc_auc_score(y_true, y_score): ValueError when y_true holds one class;
\* else the share of (positive, negative) pairs the scores rank rightly, a
\* tie counting half, as the fraction num/den.
RocAucScore(y, sc) ==
    IF Cardinality(Range(y)) # 2 THEN ValueError
    ELSE LET pairs == PosNegPairs(y)
             wins == Cardinality({pq \in pairs : sc[pq[1]] > sc[pq[2]]})
             ties == Cardinality({pq \in pairs : sc[pq[1]] = sc[pq[2]]})
         IN  [kind |-> "number", num |-> 2 * wins + ties,
              den |-> 2 * Cardinality(pairs)]

\* try: roc_auc_score(...)  except ValueError: 'Undefined (only one class present)'
ScoreOrUndefined(y, sc) ==
    LET r == RocAucScore(y, sc)
    IN  IF r.kind = "ValueError" THEN Undefined ELSE r

\* all_targets[:, i] and all_outputs[:, i]
TargetColumn(rows, i) == [k \in 1..Len(rows) |-> rows[k].y[i]]

OutputColumn(rows, i) == [k \in 1..Len(rows) |-> rows[k].p[i]]

\* A variant of DriverScheduler: train_epoch called with scheduler=None.
DriverScheduler_None == FALSE

\* The training cell passes the scheduler: train_epoch(..., device, scheduler).
DriverScheduler == TRUE

\* The notebook after cell 22: the datasets and loaders exist, the model is
\* new (a new nn.Module is in training mode), the schedule is configured.
InitModel(max_train, max_val) ==
    /\ n_train \in 1..max_train
    /\ batch_size \in 1..MaxBatchSize
    /\ \E n \in 1..max_val : val_targets \in [1..n -> TargetRows]
    /\ total_steps = LoaderLen(n_train, batch_size) * STEPS_PER_BATCH
    /\ mode = "train" /\ params = 0 /\ grads = NoGrad
    /\ opt_steps = 0 /\ sched_steps = 0
    /\ history = <<>> /\ epoch = 0 /\ ret = NoReturn
    /\ IdleCall
    /\ n_rows = 0 /\ shuffle = FALSE /\ order = <<>> /\ yielded = <<>>
    /\ traversals = 0
    /\ IdleClean /\ IdleLabels /\ IdleSplit /\ IdleItem

\* train_epoch is entered: model.train(), total_loss = 0, and the for loop
\* starts a traversal of train_loader (shuffle=True).
EnterTrainEpoch(sched) ==
    /\ mode' = ModelTrain(Machine).mode
    /\ sched_arg' = sched
    /\ entry' = Snapshot
    /\ it' \in SamplerOrders(n_train, TRUE)
    /\ total_loss' = 0
    /\ losses' = <<>>
    /\ fwd_modes' = <<>>
    /\ history' = Append(history, "train_epoch")
    /\ pc' = "train_loop"
    /\ UNCHANGED <<params, grads, opt_steps, sched_steps, events, stepped_on,
                   evalVars, epoch, ret, dataRunVars, loaderVars, stageVars>>

\* One iteration of the loop of train_epoch.
TrainBatch ==
    /\ pc = "train_loop"
    /\ it # <<>>
    /\ \E loss \in LossValues :
          LET batch == BatchOf(it, batch_size)
              m == TrainBody(Machine, sched_arg)
          IN  /\ it' = RestAfter(it, batch)
              /\ params' = m.params
              /\ grads' = m.grads
              /\ opt_steps' = m.opt_steps
              /\ sched_steps' = m.sched_steps
              /\ events' = m.events
              /\ stepped_on' = m.stepped_on
              /\ fwd_modes' = m.fwd_modes
              /\ total_loss' = total_loss + loss
              /\ losses' = Append(losses, loss)
    /\ UNCHANGED <<pc, mode, history, sched_arg, entry, evalVars, epoch, ret,
                   dataRunVars, loaderVars, stageVars>>

\* The loop of train_epoch is over: return total_loss / len(data_loader).
LeaveTrainEpoch(next_pc, kept) ==
    /\ pc = "train_loop"
    /\ it = <<>>
    /\ ret' = IF kept
              THEN [call |-> "train_epoch",
                    loss |-> AvgLoss(total_loss, n_train, batch_size),
                    roc_auc |-> <<>>]
              ELSE NoReturn
    /\ pc' = next_pc
    /\ sched_arg' = FALSE /\ entry' = NoSnapshot
    /\ events' = <<>> /\ stepped_on' = NoGrad /\ fwd_modes' = <<>>
    /\ total_loss' = 0 /\ losses' = <<>>
    /\ UNCHANGED <<it, history, machineVars, evalVars, dataRunVars, loaderVars,
                   stageVars>>

\* eval_model is entered: model.eval(), the accumulators are emptied, and the
\* for loop starts a traversal of val_loader (shuffle=False).
EnterEvalModel ==
    /\ mode' = ModelEval(Machine).mode
    /\ entry' = Snapshot
    /\ it' \in SamplerOrders(Len(val_targets), FALSE)
    /\ total_loss' = 0
    /\ losses' = <<>>
    /\ fwd_modes' = <<>>
    /\ all_targets' = <<>>
    /\ all_outputs' = <<>>
    /\ avg_loss' = <<0, 1>>
    /\ label_i' = 0
    /\ roc_auc' = <<>>
    /\ history' = Append(history, "eval_model")
    /\ pc' = "eval_loop"
    /\ UNCHANGED <<params, grads, opt_steps, sched_steps, sched_arg, events,
                   stepped_on, epoch, ret, dataRunVars, loaderVars, stageVars>>

\* One iteration of the loop of eval_model: the batch's targets and the
\* sigmoid of its outputs are appended, each row with the example it is of.
EvalBatch ==
    /\ pc = "eval_loop"
    /\ it # <<>>
    /\ LET batch == BatchOf(it, batch_size)
           m == EvalBody(Machine)
       IN  \E loss \in LossValues, out \in [1..Len(batch) -> ScoreRows] :
              /\ it' = RestAfter(it, batch)
              /\ params' = m.params
              /\ grads' = m.grads
              /\ opt_steps' = m.opt_steps
              /\ sched_steps' = m.sched_steps
              /\ events' = m.events
              /\ fwd_modes' = m.fwd_modes
              /\ total_loss' = total_loss + loss
              /\ losses' = Append(losses, loss)
              /\ all_targets' = Append(all_targets,
                    [k \in 1..Len(batch) |->
                        [ex |-> batch[k], y |-> val_targets[batch[k] + 1]]])
              /\ all_outputs' = Append(all_outputs,
                    [k \in 1..Len(batch) |-> [ex |-> batch[k], p |-> out[k]]])
    /\ UNCHANGED <<pc, mode, history, sched_arg, entry, stepped_on, avg_loss,
                   label_i, roc_auc, epoch, ret, dataRunVars, loaderVars,
                   stageVars>>

\* The loop of eval_model is over: avg_loss = total_loss / len(data_loader)
\* and np.concatenate of both lists.
EvalConcatenate ==
    /\ pc = "eval_loop"
    /\ it = <<>>
    /\ avg_loss' = AvgLoss(total_loss, Len(val_targets), batch_size)
    /\ all_targets' = Flatten(all_targets)
    /\ all_outputs' = Flatten(all_outputs)
    /\ pc' = "scoring"
    /\ UNCHANGED <<label_i, roc_auc, epoch, ret, machineVars, callVars,
                   dataRunVars, loaderVars, stageVars>>

\* One iteration of 'for i, label in enumerate(labels)'.
ScoreLabel ==
    /\ pc = "scoring"
    /\ label_i < Len(labels)
    /\ roc_auc' = Append(roc_auc,
          ScoreOrUndefined(TargetColumn(all_targets, label_i + 1),
                           OutputColumn(all_outputs, label_i + 1)))
    /\ label_i' = label_i + 1
    /\ UNCHANGED <<pc, all_targets, all_outputs, avg_loss, epoch, ret, machineVars,
                   callVars, dataRunVars, loaderVars, stageVars>>

\* return avg_loss, roc_auc
LeaveEvalModel(next_pc, kept) ==
    /\ pc = "scoring"
    /\ label_i = Len(labels)
    /\ ret' = IF kept
              THEN [call |-> "eval_model",
                    loss |-> avg_loss,
                    roc_auc |-> roc_auc]
              ELSE NoReturn
    /\ pc' = next_pc
    /\ entry' = NoSnapshot
    /\ events' = <<>> /\ fwd_modes' = <<>>
    /\ total_loss' = 0 /\ losses' = <<>>
    /\ all_targets' = <<>> /\ all_outputs' = <<>> /\ avg_loss' = <<0, 1>>
    /\ label_i' = 0 /\ roc_auc' = <<>>
    /\ UNCHANGED <<it, history, sched_arg, stepped_on, machineVars, epoch,
                   dataRunVars, loaderVars, stageVars>>

(***************************************************************************)
(* The notebook: cell 26 runs EPOCHS epochs, cell 30 evaluates once.       *)
(***************************************************************************)
InitRun == pc = "cell26" /\ InitModel(MaxTrain, MaxVal)

\* train_loss = train_epoch(model, train_loader, criterion, optimizer, device, scheduler)
CallTrainEpoch ==
    /\ pc = "cell26"
    /\ epoch < EPOCHS
    /\ EnterTrainEpoch(DriverScheduler)

ReturnTrainLoss ==
    /\ LeaveTrainEpoch("cell26", TRUE)
    /\ epoch' = epoch + 1

\* val_loss, roc_auc = eval_model(model, val_loader, criterion, device)
CallEvalModel ==
    /\ pc = "cell26"
    /\ epoch = EPOCHS
    /\ EnterEvalModel

ReturnValLoss ==
    /\ LeaveEvalModel("done", TRUE)
    /\ UNCHANGED epoch

NextRun ==
    \/ CallTrainEpoch \/ TrainBatch \/ ReturnTrainLoss
    \/ CallEvalModel \/ EvalBatch \/ EvalConcatenate \/ ScoreLabel \/ ReturnValLoss

SpecRun == InitRun /\ [][NextRun]_vars

(***************************************************************************)
(* Any caller: train_epoch, with or without a scheduler, and eval_model    *)
(* called on the same model in any order; the returned values are dropped. *)
(***************************************************************************)
InitCalls == pc = "idle" /\ InitModel(MaxCallRows, MaxCallRows)

AnyTrainEpoch ==
    /\ pc = "idle"
    /\ Len(history) < MaxCalls
    /\ \E sched \in BOOLEAN : EnterTrainEpoch(sched)

AnyTrainReturn ==
    /\ LeaveTrainEpoch("idle", FALSE)
    /\ UNCHANGED epoch

AnyEvalModel ==
    /\ pc = "idle"
    /\ Len(history) < MaxCalls
    /\ EnterEvalModel

AnyEvalReturn ==
    /\ LeaveEvalModel("idle", FALSE)
    /\ UNCHANGED epoch

NextCalls ==
    \/ AnyTrainEpoch \/ TrainBatch \/ AnyTrainReturn
    \/ AnyEvalModel \/ EvalBatch \/ EvalConcatenate \/ ScoreLabel \/ AnyEvalReturn

SpecCalls == InitCalls /\ [][NextCalls]_vars

\* What the loop body of train_epoch does, in order.
TrainEvents(sched) ==
    <<"forward", "loss", "zero_grad", "backward", "clip", "step">>
        \o (IF sched THEN <<"sched">> ELSE <<>>)

\* C3: in train_epoch every batch does, once each and in this order, the
\* forward pass, the loss, the gradient clear, the back-propagation, the
\* clipping, the optimizer step and, iff a scheduler was passed, the
\* scheduler step; the optimizer step uses this batch's clipped gradient, and
\* the parameters are updated once per batch.
C3_TrainBatchOrder ==
    pc = "train_loop" /\ losses # <<>> =>
        /\ events = TrainEvents(sched_arg)
        /\ stepped_on = [has |-> TRUE, fresh |-> TRUE, clipped |-> TRUE]
        /\ params = entry.params + Len(losses)
        /\ opt_steps = entry.opt_steps + Len(losses)
        /\ sched_steps = entry.sched_steps + (IF sched_arg THEN Len(losses) ELSE 0)

\* A second epoch, called without a scheduler after one with it, has done
\* its second batch.
C3_Witness ==
    /\ pc = "train_loop"
    /\ Len(losses) = 2
    /\ ~sched_arg
    /\ entry.sched_steps > 0
    /\ events = TrainEvents(FALSE)

\* C6: every forward pass inside eval_model sees the model in evaluation
\* mode, and eval_model clears no gradient, back-propagates nothing and steps
\* neither optimizer nor scheduler, so the parameters stay what they were at
\* its entry; every forward pass inside train_epoch sees training mode, also
\* after a call of eval_model.
C6_ModesAndFrame ==
    /\ pc \in {"eval_loop", "scoring"} =>
          /\ \A k \in 1..Len(fwd_modes) : fwd_modes[k] = "eval"
          /\ Len(fwd_modes) = Len(losses)
          /\ Range(events) \subseteq {"forward", "loss"}
          /\ Snapshot = entry
    /\ pc = "train_loop" =>
          /\ \A k \in 1..Len(fwd_modes) : fwd_modes[k] = "train"
          /\ Len(fwd_modes) = Len(losses)

\* train_epoch, called after eval_model, has made a forward pass.
C6_Witness ==
    /\ pc = "train_loop"
    /\ history = <<"eval_model", "train_epoch">>
    /\ fwd_modes # <<>>

\* eval_model, called after train_epoch, is about to return.
C6_WitnessEval ==
    /\ pc = "scoring"
    /\ history = <<"train_epoch", "eval_model">>
    /\ label_i = Len(labels)
    /\ params > 0

\* C10: over the training run the scheduler has advanced as often as the
\* optimizer has stepped, never more often than num_training_steps, and
\* after the last epoch EPOCHS * len(train_loader) times.
C10_SchedulerMatchesOptimizer ==
    /\ sched_steps = opt_steps
    /\ sched_steps <= total_steps
    /\ epoch = EPOCHS => sched_steps = EPOCHS * LoaderLen(n_train, batch_size)

\* The training is over after several batches.
C10_Witness ==
    /\ epoch = EPOCHS
    /\ sched_steps >= 2
    /\ sched_steps < total_steps

\* C9: after the traversal of eval_model the collected targets and the
\* collected predictions have one row per example, row k of both being of
\* the k-th example visited (and the targets that example's), and avg_loss
\* is the sum of the batches' losses over the number of batches.
C9_CollectedInBatchOrder ==
    pc = "scoring" =>
        /\ Len(all_targets) = Len(val_targets)
        /\ Len(all_outputs) = Len(val_targets)
        /\ \A k \in 1..Len(val_targets) :
              /\ all_targets[k].ex = StoreOrder(Len(val_targets))[k]
              /\ all_outputs[k].ex = all_targets[k].ex
              /\ all_targets[k].y = val_targets[k]
        /\ Len(losses) = LoaderLen(Len(val_targets), batch_size)
        /\ avg_loss = <<SumSeq(losses), Len(losses)>>

\* A validation set of several rows was traversed in one batch.
C9_Witness ==
    /\ pc = "scoring"
    /\ Len(val_targets) >= 2
    /\ Len(losses) = 1
    /\ all_outputs[1].p # all_outputs[2].p

\* A validation set was traversed in several batches of different loss.
C9_WitnessBatches ==
    /\ pc = "scoring"
    /\ Len(losses) >= 2
    /\ losses[1] # losses[2]

\* The targets of label i in the validation set are all 0 or all 1.
OneClass(i) ==
    \/ \A k \in 1..Len(val_targets) : val_targets[k][i] = 0
    \/ \A k \in 1..Len(val_targets) : val_targets[k][i] = 1

====
